---- MODULE Spec2Model ----
(***************************************************************************)
(* State-machine model of the upload gateway in src/src/main.rs:           *)
(* process startup (get_aws_client, main), the router (main, lines 36-41), *)
(* and the three handlers (handler_404, get_ping, upload_handler) with the *)
(* suspension points of upload_handler (next_field, bytes, send) as        *)
(* separate steps, so that concurrent requests interleave.                 *)
(***************************************************************************)
EXTENDS Naturals, Sequences, FiniteSets, TLC

\* ------------------------------------------------------------------ bounds
\* Number of requests the server receives in one run.
MaxReqs == 2
\* Largest number of fields a multipart body holds.
MaxFields == 2

\* ------------------------------------------------------------ Option values
\* Rust's Option<T> / Result<T, _>: None (or Err) is <<>>, Some(v) is <<v>>.
None == <<>>
Some(v) == <<v>>

\* ------------------------------------------------------------- input values
StartupVars == {"REGION", "ENDPOINT", "AWS3_CRED_KEY_ID", "AWS3_CRED_KEY_SECRET"}
EnvVars == StartupVars \cup {"BUCKET_NAME"}
\* What std::env::var finds for a name: nothing (None) or its value.
StartupValues == {None, Some("cfg")}
BucketValues == {None, Some("uploads")}
Envs == {e \in [EnvVars -> StartupValues \cup BucketValues] :
            /\ \A v \in StartupVars : e[v] \in StartupValues
            /\ e["BUCKET_NAME"] \in BucketValues}

Methods == {"GET", "POST", "HEAD", "OPTIONS"}
Paths == {"/ping", "/upload", "/nonexistent"}
FileNames == {"a.txt", "b.txt"}
ContentTypes == {"text/plain", "image/png"}
Payloads == {<<1>>, <<2>>}

\* A request body: not multipart at all, a multipart stream that is broken at
\* its first boundary, or a well-formed multipart stream of nfields fields.
Bodies ==
    {[kind |-> "not_multipart", nfields |-> 0], [kind |-> "malformed", nfields |-> 0]}
        \cup {[kind |-> "multipart", nfields |-> n] : n \in 0..MaxFields}
NoBody == [kind |-> "none", nfields |-> 0]

\* The headers of one multipart field, as field.file_name() and
\* field.content_type() report them.
FieldHeaders == [file_name : {None} \cup {Some(f) : f \in FileNames},
                 content_type : {None} \cup {Some(c) : c \in ContentTypes}]

Reqs == 1..MaxReqs

VARIABLES
    phase,          \* "init" | "built" | "serving" | "terminated"
    env,            \* the process environment
    s3_client,      \* None, or Some(configuration of the shared client)
    pc,             \* per request: "idle" | "scan" | "bytes" | "sending" | "done" | "panicked"
    method, path, body,     \* per request: the request as received
    bucket_name,    \* per request: local of upload_handler (line 89)
    fields,         \* per request: headers of the fields next_field has returned
    content_type,   \* per request: local of upload_handler (line 94)
    file_name,      \* per request: local of upload_handler (line 95)
    data,           \* per request: local of upload_handler (line 98)
    result,         \* per request: None, or Some("Ok" | "Err") of upload_to_s3
    response,       \* per request: the HTTP response sent
    calls,          \* per request: the put-object calls it issued, in order
    store           \* the backend: <<bucket, key>> -> stored object

vars == <<phase, env, s3_client, pc, method, path, body, bucket_name,
          fields, content_type, file_name, data, result, response, calls, store>>

shared == <<phase, env, s3_client>>
locals == <<bucket_name, fields, content_type, file_name, data, result>>

\* ---------------------------------------------------------------- responses
\* (StatusCode, Json<ResponseMessage>): the status line and the JSON body
\* {status, message}; a text or empty body has json_status 0.
JsonResponse(code, msg) ==
    [status |-> code, kind |-> "json", json_status |-> code, message |-> msg]
NoResponse == [status |-> 0, kind |-> "none", json_status |-> 0, message |-> ""]

handler_404 == JsonResponse(404, "404 not found")

get_ping == [status |-> 200, kind |-> "text", json_status |-> 0, message |-> "pong!"]

\* The answer to a HEAD request: the handler's status, the body dropped.
HeadOf(resp) == [resp EXCEPT !.kind = "empty", !.json_status = 0, !.message = ""]

MethodNotAllowed == [status |-> 405, kind |-> "empty", json_status |-> 0, message |-> ""]
CorsPreflight == [status |-> 200, kind |-> "empty", json_status |-> 0, message |-> ""]
MultipartRejection ==
    [status |-> 400, kind |-> "text", json_status |-> 0, message |-> "Invalid boundary for multipart/form-data request"]

Created == JsonResponse(201, "File uploaded successfully")
InternalServerError == JsonResponse(500, "Failed to upload file")
NoFileFound == JsonResponse(400, "No file found")

\* ------------------------------------------------------------------ routing
\* Variant of Route that picks the handler by path alone.
Route_PathOnly(m, p) ==
    IF m = "OPTIONS" THEN "cors_preflight"
    ELSE IF p = "/upload" THEN "upload_handler"
    ELSE IF p = "/ping" THEN "get_ping"
    ELSE "handler_404"

\* CorsLayer answers every OPTIONS request itself; otherwise the path picks the
\* route, post(..) serves POST and get(..) serves GET and HEAD, a known path with
\* another method is answered by the method router, and the fallback takes
\* the paths no route matches.
Route(m, p) ==
    IF m = "OPTIONS" THEN "cors_preflight"
    ELSE IF p = "/upload" THEN (IF m = "POST" THEN "upload_handler" ELSE "method_not_allowed")
    ELSE IF p = "/ping" THEN (IF m \in {"GET", "HEAD"} THEN "get_ping" ELSE "method_not_allowed")
    ELSE "handler_404"

\* The response of a route that has no suspension point; the response to a
\* HEAD request is sent without its body.
ImmediateResponse(route, m) ==
    LET resp == CASE route = "cors_preflight" -> CorsPreflight
                  [] route = "method_not_allowed" -> MethodNotAllowed
                  [] route = "get_ping" -> get_ping
                  [] OTHER -> handler_404
    IN  IF m = "HEAD" THEN HeadOf(resp) ELSE resp

\* ------------------------------------------------------------ upload_handler
\* Variant of FieldPanics: unwrap_or_default instead of unwrap.
FieldPanics_UnwrapOrDefault(field) == FALSE

\* Lines 94-95: content_type().unwrap() and file_name().unwrap().
FieldPanics(field) == field.content_type = None \/ field.file_name = None

\* Option::unwrap_or_default: the value, or "" for None.
ValueOr(opt) == IF opt = None THEN "" ELSE opt[1]

\* Variant of upload_to_s3 that sends no body.
upload_to_s3_EmptyBody(fname, ctype, bytes, bucket) ==
    [bucket |-> bucket, body |-> <<>>, content_type |-> ctype, key |-> fname]

\* Variant of upload_to_s3 with key and content type exchanged.
upload_to_s3_SwappedArgs(fname, ctype, bytes, bucket) ==
    [bucket |-> bucket, body |-> bytes, content_type |-> fname, key |-> ctype]

\* Lines 133-138: the put-object request upload_to_s3 builds.
upload_to_s3(fname, ctype, bytes, bucket) ==
    [bucket |-> bucket, body |-> bytes, content_type |-> ctype, key |-> fname]

\* Variant of Args: the field metadata kept in one place shared by all
\* requests in flight.
Args_Shared(r) ==
    LET others == {q \in Reqs : q # r /\ pc[q] \in {"bytes", "sending"}}
        q == IF others = {} THEN r ELSE CHOOSE o \in others : TRUE
    IN  [file_name |-> file_name[q][1], content_type |-> content_type[q][1]]

\* Line 101: the handler's own locals are what it passes to upload_to_s3.
Args(r) == [file_name |-> file_name[r][1], content_type |-> content_type[r][1]]

\* Variant of ResultResponse that ignores the error.
ResultResponse_ErrIgnored(res) == Created

\* Lines 103-116: the response for upload_to_s3's result.
ResultResponse(res) == IF res = "Ok" THEN Created ELSE InternalServerError

\* Variant of LoopControl: the loop goes on to the next field.
LoopControl_Continue(res) == "continue"

\* Lines 105 and 111: both arms of the match return from the handler.
LoopControl(res) == "return"

\* Lines 119-122: the response when the loop ends without returning.
NoFieldResponse == NoFileFound

\* The object a put-object call leaves under its key.
PutStore(s, call) ==
    (<<call.bucket, call.key>> :> [body |-> call.body, content_type |-> call.content_type]) @@ s

\* --------------------------------------------------------------------- Init
Init ==
    /\ phase = "init"
    /\ env \in Envs
    /\ s3_client = None
    /\ pc = [r \in Reqs |-> "idle"]
    /\ method = [r \in Reqs |-> ""]
    /\ path = [r \in Reqs |-> ""]
    /\ body = [r \in Reqs |-> NoBody]
    /\ bucket_name = [r \in Reqs |-> None]
    /\ fields = [r \in Reqs |-> <<>>]
    /\ content_type = [r \in Reqs |-> None]
    /\ file_name = [r \in Reqs |-> None]
    /\ data = [r \in Reqs |-> None]
    /\ result = [r \in Reqs |-> None]
    /\ response = [r \in Reqs |-> NoResponse]
    /\ calls = [r \in Reqs |-> <<>>]
    /\ store = <<>>

\* ------------------------------------------------------------------ startup
\* Lines 58-83 (called at line 31): each of the four lookups panics on a
\* missing name, which ends the process; otherwise the client is built.
get_aws_client ==
    /\ phase = "init"
    /\ IF \E v \in StartupVars : env[v] = None
       THEN /\ phase' = "terminated"
            /\ UNCHANGED s3_client
       ELSE /\ phase' = "built"
            /\ s3_client' = Some([region |-> env["REGION"][1],
                                  endpoint |-> env["ENDPOINT"][1],
                                  access_key_id |-> env["AWS3_CRED_KEY_ID"][1],
                                  secret_access_key |-> env["AWS3_CRED_KEY_SECRET"][1],
                                  force_path_style |-> TRUE])
    /\ UNCHANGED <<env, pc, method, path, body, locals, response, calls, store>>

\* Lines 43-44: bind the listener (unwrap: a failed bind ends the process) and
\* serve.
Serve ==
    /\ phase = "built"
    /\ \E bound \in BOOLEAN : phase' = IF bound THEN "serving" ELSE "terminated"
    /\ UNCHANGED <<env, s3_client, pc, method, path, body, locals, response, calls, store>>

\* ----------------------------------------------------------------- requests
Ended(r) == pc[r] \in {"done", "panicked"}

\* A request arrives and is routed (lines 36-41). handler_404, get_ping, the
\* method router and the CORS layer answer at once. For upload_handler the
\* Multipart extractor (line 87) rejects a body that is not multipart, and the
\* handler then reads BUCKET_NAME (lines 89-90), panicking when it is absent.
Arrive(r) ==
    /\ phase = "serving"
    /\ pc[r] = "idle"
    /\ \A q \in Reqs : q < r => pc[q] # "idle"
    /\ \E m \in Methods, p \in Paths, b \in Bodies :
        LET route == Route(m, p) IN
        /\ method' = [method EXCEPT ![r] = m]
        /\ path' = [path EXCEPT ![r] = p]
        /\ IF route # "upload_handler"
           THEN /\ body' = [body EXCEPT ![r] = NoBody]
                /\ response' = [response EXCEPT ![r] = ImmediateResponse(route, m)]
                /\ pc' = [pc EXCEPT ![r] = "done"]
                /\ UNCHANGED bucket_name
           ELSE /\ body' = [body EXCEPT ![r] = b]
                /\ IF b.kind = "not_multipart"
                   THEN /\ response' = [response EXCEPT ![r] = MultipartRejection]
                        /\ pc' = [pc EXCEPT ![r] = "done"]
                        /\ UNCHANGED bucket_name
                   ELSE IF env["BUCKET_NAME"] = None
                   THEN /\ pc' = [pc EXCEPT ![r] = "panicked"]
                        /\ UNCHANGED <<response, bucket_name>>
                   ELSE /\ bucket_name' = [bucket_name EXCEPT ![r] = env["BUCKET_NAME"]]
                        /\ pc' = [pc EXCEPT ![r] = "scan"]
                        /\ UNCHANGED response
    /\ UNCHANGED <<shared, fields, content_type, file_name, data, result, calls, store>>

\* Line 92: multipart.next_field().await.unwrap(), then lines 94-95 on the
\* field it returned, up to the next suspension point (line 98).
NextField(r) ==
    /\ pc[r] = "scan"
    /\ IF Len(fields[r]) < body[r].nfields
       THEN \E field \in FieldHeaders :
              /\ fields' = [fields EXCEPT ![r] = Append(@, field)]
              /\ IF FieldPanics(field)
                 THEN /\ pc' = [pc EXCEPT ![r] = "panicked"]
                      /\ UNCHANGED <<content_type, file_name>>
                 ELSE /\ content_type' = [content_type EXCEPT ![r] = Some(ValueOr(field.content_type))]
                      /\ file_name' = [file_name EXCEPT ![r] = Some(ValueOr(field.file_name))]
                      /\ pc' = [pc EXCEPT ![r] = "bytes"]
              /\ UNCHANGED response
       ELSE IF body[r].kind = "malformed"
       THEN /\ pc' = [pc EXCEPT ![r] = "panicked"]
            /\ UNCHANGED <<fields, content_type, file_name, response>>
       ELSE /\ response' = [response EXCEPT ![r] = NoFieldResponse]
            /\ pc' = [pc EXCEPT ![r] = "done"]
            /\ UNCHANGED <<fields, content_type, file_name>>
    /\ UNCHANGED <<shared, method, path, body, bucket_name, data, result, calls, store>>

\* Line 98: field.bytes().await.unwrap() (the stream can fail inside the
\* field), then line 101 up to req.send() (line 139): the call is issued.
ReadBytes(r) ==
    /\ pc[r] = "bytes"
    /\ \E read \in {None} \cup {Some(p) : p \in Payloads} :
        IF read = None
        THEN /\ pc' = [pc EXCEPT ![r] = "panicked"]
             /\ UNCHANGED <<data, calls>>
        ELSE /\ data' = [data EXCEPT ![r] = read]
             /\ calls' = [calls EXCEPT ![r] =
                    Append(@, upload_to_s3(Args(r).file_name, Args(r).content_type,
                                           read[1], bucket_name[r][1]))]
             /\ pc' = [pc EXCEPT ![r] = "sending"]
    /\ UNCHANGED <<shared, method, path, body, bucket_name, fields,
                   content_type, file_name, result, response, store>>

\* Lines 139-140 and 103-116: the backend answers the call; an accepted call
\* has stored the object; the handler maps the result to its response.
PutComplete(r) ==
    /\ pc[r] = "sending"
    /\ \E res \in {"Ok", "Err"} :
        /\ result' = [result EXCEPT ![r] = Some(res)]
        /\ store' = IF res = "Ok" THEN PutStore(store, calls[r][Len(calls[r])]) ELSE store
        /\ IF LoopControl(res) = "return"
           THEN /\ response' = [response EXCEPT ![r] = ResultResponse(res)]
                /\ pc' = [pc EXCEPT ![r] = "done"]
           ELSE /\ pc' = [pc EXCEPT ![r] = "scan"]
                /\ UNCHANGED response
    /\ UNCHANGED <<shared, method, path, body, bucket_name, fields,
                   content_type, file_name, data, calls>>

Next ==
    \/ get_aws_client
    \/ Serve
    \/ \E r \in Reqs : Arrive(r)
    \/ \E r \in Reqs : NextField(r)
    \/ \E r \in Reqs : ReadBytes(r)
    \/ \E r \in Reqs : PutComplete(r)

Spec == Init /\ [][Next]_vars

\* =================================================================== claims
\* The responses the specification names, written out.
Json201 == [status |-> 201, kind |-> "json", json_status |-> 201, message |-> "File uploaded successfully"]
Json400 == [status |-> 400, kind |-> "json", json_status |-> 400, message |-> "No file found"]
Json500 == [status |-> 500, kind |-> "json", json_status |-> 500, message |-> "Failed to upload file"]
Json404 == [status |-> 404, kind |-> "json", json_status |-> 404, message |-> "404 not found"]

IsUpload(r) == method[r] = "POST" /\ path[r] = "/upload"
HasFirstField(r) == Len(fields[r]) >= 1
FirstFieldComplete(r) ==
    HasFirstField(r) /\ fields[r][1].file_name # None /\ fields[r][1].content_type # None
Accepted(r) == result[r] = Some("Ok")
Failed(r) == result[r] = Some("Err")
\* The put-object call that carries request r's first field and nothing else.
OwnCall(r) ==
    [bucket |-> env["BUCKET_NAME"][1], body |-> data[r][1],
     content_type |-> fields[r][1].content_type[1], key |-> fields[r][1].file_name[1]]

\* C1: an upload whose multipart body holds exactly one field with a file name
\* and a content type, and whose put-object call the backend accepted, is
\* answered 201 {status:201, message:"File uploaded successfully"}, and the
\* backend received exactly one call for it: key = the file name, content type
\* = the field's, bucket = BUCKET_NAME, body = the field's bytes.
C1_SingleFieldUpload ==
    \A r \in Reqs :
        (/\ IsUpload(r)
         /\ body[r] = [kind |-> "multipart", nfields |-> 1]
         /\ FirstFieldComplete(r)
         /\ Accepted(r))
        => /\ pc[r] = "done"
           /\ response[r] = Json201
           /\ calls[r] = <<OwnCall(r)>>

C1_Witness ==
    \E r \in Reqs :
        /\ IsUpload(r)
        /\ body[r] = [kind |-> "multipart", nfields |-> 1]
        /\ FirstFieldComplete(r)
        /\ Accepted(r)
        /\ pc[r] = "done"

\* C2: every upload whose multipart body has zero fields is answered 400
\* {status:400, message:"No file found"}, and no put-object call is issued
\* for it.
C2_EmptyBodyRejected ==
    \A r \in Reqs :
        (IsUpload(r) /\ body[r] = [kind |-> "multipart", nfields |-> 0])
        => /\ calls[r] = <<>>
           /\ pc[r] # "panicked"
           /\ pc[r] = "done" => response[r] = Json400

\* C3: when the put-object call of an upload fails, the request is answered 500
\* {status:500, message:"Failed to upload file"} at once, with the one call it
\* issued and no other; the step changes neither the shared state (phase,
\* environment, client) nor the store. No step of a serving process changes
\* the shared state, the store changes only when a call is accepted, and an
\* ended request issues no call and keeps its response: later requests meet
\* the state they would have met without the failed request.
C3_FailedPut ==
    [][/\ \A r \in Reqs :
            (pc[r] = "sending" /\ result'[r] = Some("Err"))
            => /\ pc'[r] = "done"
               /\ response'[r] = Json500
               /\ Len(calls[r]) = 1
               /\ calls'[r] = calls[r]
               /\ shared' = shared
               /\ store' = store
       /\ phase = "serving" => shared' = shared
       /\ store' # store => \E r \in Reqs : result[r] = None /\ result'[r] = Some("Ok")
       /\ \A r \in Reqs :
            Ended(r) => /\ pc'[r] = pc[r]
                        /\ calls'[r] = calls[r]
                        /\ response'[r] = response[r]
      ]_vars

C3_Witness ==
    \E r, q \in Reqs :
        /\ r # q
        /\ Failed(r) /\ pc[r] = "done" /\ response[r] = Json500
        /\ pc[q] = "done" /\ response[q] = Json201

\* C4: every upload request ends with a response that carries a status code
\* and a JSON {status, message} body; a field without file name or content
\* type gives 400, an absent BUCKET_NAME gives 500.
C4_AlwaysResponds ==
    \A r \in Reqs :
        (IsUpload(r) /\ body[r].kind # "not_multipart")
        => /\ pc[r] # "panicked"
           /\ pc[r] = "done" => /\ response[r].kind = "json"
                                /\ response[r].status = response[r].json_status
           /\ (pc[r] # "idle" /\ env["BUCKET_NAME"] = None) => response[r].status = 500
           /\ (HasFirstField(r) /\ ~FirstFieldComplete(r)) => response[r].status = 400

\* C5: an upload whose first field lacks a file name or a content type never
\* issues a put-object call and never buffers the field's bytes, in any state
\* the request goes through.
C5_NoUploadOfMalformedField ==
    \A r \in Reqs :
        (IsUpload(r) /\ HasFirstField(r) /\ ~FirstFieldComplete(r))
        => /\ calls[r] = <<>>
           /\ data[r] = None
           /\ \A k \in DOMAIN store : k[2] # ""

C5_Witness ==
    \E r \in Reqs :
        /\ IsUpload(r) /\ HasFirstField(r) /\ ~FirstFieldComplete(r)
        /\ Ended(r)
        /\ \E q \in Reqs : Accepted(q)

\* C6 (as stated): every request that is neither GET /ping nor POST /upload is
\* answered by the fallback: 404 {"status":404,"message":"404 not found"}.
C6_FallbackForEveryOther ==
    \A r \in Reqs :
        (/\ pc[r] # "idle"
         /\ ~(method[r] = "GET" /\ path[r] = "/ping")
         /\ ~(method[r] = "POST" /\ path[r] = "/upload"))
        => pc[r] = "done" /\ response[r] = Json404

KnownPath(p) == p \in {"/ping", "/upload"}
Registered(m, p) ==
    \/ p = "/upload" /\ m = "POST"
    \/ p = "/ping" /\ m \in {"GET", "HEAD"}

\* C6 (amended): every request other than OPTIONS whose path is neither /ping
\* nor /upload is answered by the fallback with status 404 and, unless it is a
\* HEAD request, the body {"status":404,"message":"404 not found"}; a request
\* other than OPTIONS to /ping or /upload with a method its route does not
\* serve is answered 405 with an empty body, not by the fallback.
C6_FallbackForUnknownPath ==
    \A r \in Reqs :
        (pc[r] # "idle" /\ method[r] # "OPTIONS")
        => /\ ~KnownPath(path[r])
                => /\ pc[r] = "done"
                   /\ response[r].status = 404
                   /\ method[r] # "HEAD" => response[r] = Json404
           /\ (KnownPath(path[r]) /\ ~Registered(method[r], path[r]))
                => /\ pc[r] = "done"
                   /\ response[r].status = 405
                   /\ response[r].kind = "empty"

C6_Witness ==
    \E r, q \in Reqs :
        /\ pc[r] = "done" /\ method[r] = "GET" /\ path[r] = "/nonexistent"
        /\ response[r] = Json404
        /\ pc[q] = "done" /\ method[q] = "GET" /\ path[q] = "/upload"

\* C7: while the process accepts requests, all five configuration values are
\* present and non-empty.
C7_ConfigComplete ==
    phase = "serving" => \A v \in EnvVars : env[v] # None /\ env[v] # Some("")

\* C8: with uploads handled concurrently, every put-object call a request
\* issues carries that request's own file name, content type and bytes (and
\* the configured bucket), and a request whose call is accepted gets its own
\* 201 with exactly one call: N accepted uploads make exactly N calls.
C8_NoCrossContamination ==
    \A r \in Reqs :
        /\ calls[r] # <<>> => calls[r][1] = OwnCall(r)
        /\ Accepted(r) => (response[r] = Json201 /\ Len(calls[r]) = 1)

C8_Witness ==
    \E r, q \in Reqs :
        /\ r # q
        /\ pc[r] = "sending" /\ pc[q] = "sending"
        /\ file_name[r] # file_name[q]
        /\ content_type[r] # content_type[q]
        /\ data[r] # data[q]

\* C9: when an upload is accepted after an accepted upload of the same file
\* name with different bytes has been answered, both are answered 201 and the
\* object under that key holds the later request's bytes and content type.
C9_OverwriteOnCollision ==
    [][\A r1, r2 \in Reqs :
        (/\ r1 # r2
         /\ pc[r1] = "done" /\ Accepted(r1)
         /\ pc[r2] = "sending" /\ result'[r2] = Some("Ok")
         /\ fields[r1][1].file_name = fields[r2][1].file_name
         /\ data[r1] # data[r2])
        => /\ response'[r1] = Json201
           /\ response'[r2] = Json201
           /\ <<env["BUCKET_NAME"][1], fields[r2][1].file_name[1]>> \in DOMAIN store'
           /\ store'[<<env["BUCKET_NAME"][1], fields[r2][1].file_name[1]>>]
                = [body |-> data[r2][1], content_type |-> fields[r2][1].content_type[1]]
      ]_vars

C9_Witness ==
    \E r1, r2 \in Reqs :
        /\ r1 < r2
        /\ pc[r1] = "done" /\ Accepted(r1) /\ response[r1] = Json201
        /\ pc[r2] = "done" /\ Accepted(r2) /\ response[r2] = Json201
        /\ fields[r1][1].file_name = fields[r2][1].file_name
        /\ data[r1] # data[r2]
        /\ fields[r1][1].content_type # fields[r2][1].content_type
        /\ store[<<env["BUCKET_NAME"][1], fields[r2][1].file_name[1]>>].body = data[r2][1]

\* C10: a request issues at most one put-object call and reads at most one
\* field, however many fields its body has; once the call has completed the
\* request is answered, 201 if it was accepted and 500 if it failed.
C10_AtMostOnePut ==
    \A r \in Reqs :
        /\ Len(calls[r]) <= 1
        /\ Len(fields[r]) <= 1
        /\ Accepted(r) => (pc[r] = "done" /\ response[r] = Json201)
        /\ Failed(r) => (pc[r] = "done" /\ response[r] = Json500)

C10_Witness ==
    \E r, q \in Reqs :
        /\ body[r].nfields >= 2 /\ Accepted(r) /\ pc[r] = "done"
        /\ body[q].nfields >= 2 /\ Failed(q) /\ pc[q] = "done"

====
